---- MODULE Spec2Model ----
(***************************************************************************)
(* Capture-process supervisor of tidskott-pi: MacOSCamera (ffmpeg) and     *)
(* RaspberryPiCamera (rpicam-vid), src/pkg/camera/macos/macos.go.          *)
(*                                                                         *)
(* One supervisor instance, its RWMutex, a control task that calls Start   *)
(* and Stop and a status task that calls the accessors, the exec.Cmd       *)
(* objects the supervisor creates, the OS processes behind them, the       *)
(* output path on the filesystem, the stderr scanner and its channel, the  *)
(* timers of the two select statements and the goroutine Stop spawns       *)
(* around cmd.Wait.                                                        *)
(***************************************************************************)
EXTENDS Integers, Sequences, FiniteSets, TLC

\* ------------------------------------------------------------------ bounds

\* exec.Cmd objects one supervisor creates in a run.
MaxCmd == 2

\* Lines a subprocess writes to its diagnostic stream during one Start.
MaxLines == 1

\* make(chan string, 10)
QueueCap == 10

\* Lines a subprocess writes to its diagnostic stream in its life, where the
\* stream is followed past the end of Start.
MaxStderr == 11

\* The control path calls Start and Stop, the status-reporting path the
\* accessors, concurrently.
Tasks == {"control", "status"}

Operations == {"Start", "Stop", "Accessor", "GetName"}

MayCall(t, o) == (t = "control") = (o \in {"Start", "Stop"})

CmdIds == 1..MaxCmd

NoTask == "none"

\* Upload results the uploader publishes in a run.
MaxResults == 4

\* Results the channel behind uploader.Results() holds before a send blocks.
ResultsCap == 2

\* Longest output path a supervisor is constructed with.
MaxPath == 4

\* The characters of an output path: the path separator, the dot, letters.
Chars == {"/", ".", "t", "s", "v"}

\* Classification of a diagnostic line by the substrings the loop looks for:
\* fatal ("Cannot open", "Could not initialize", "Permission denied"),
\* success ("Stream mapping:"), info (anything else).
LineTags == {"fatal", "success", "info"}

\* ------------------------------------------------------------------ state

VARIABLES
    variant,        \* "macos" | "rpi": which supervisor type this instance is
    outputPath,     \* c.outputPath, a string as the sequence of its characters
    snap,           \* the SnapshotHandler's result logger and the uploader's results
    running,        \* c.running
    cmd,            \* c.cmd: 0 is nil, k > 0 the k-th exec.Cmd created
    processState,   \* c.processState: "nil" or an exit kind
    startTime,      \* c.config.StartTime: 0 is the zero time, k the stamp of the
                    \* Start that confirmed cmd k
    config,         \* c.config, its fields other than StartTime
    muWriter,       \* c.mu: the task holding Lock, or NoTask
    muReaders,      \* c.mu: the tasks holding RLock
    pc,             \* per task: where it is in its call
    op,             \* per task: the operation of its call
    ret,            \* per task: what the call returned, until the caller moves on
    stopCtxDone,    \* Done() of the ctx of the Stop call inside its select is closed
    cmds,           \* per exec.Cmd: its ctx, OS process, signals sent, ProcessState
    waiter,         \* per exec.Cmd: the goroutine of Stop around cmd.Wait
    file,           \* what is at outputPath: "absent" | "empty" | "data" | "fifo"
    timers,         \* startTimer and shutdownTimer: "idle"|"armed"|"fired"|"stopped"
    tick,           \* fileCheckTicker.C holds a tick
    pipe,           \* of c.cmd: lines written to stderr, not yet scanned
    emitted,        \* of c.cmd: lines written to stderr so far
    outputChan,     \* of c.cmd: the scanner's channel
    chanClosed,     \* of c.cmd: close(outputChan) has run
    hist            \* of the Start in its loop: what the subprocess did so far

vars == <<variant, outputPath, snap, running, cmd, processState, startTime, config, muWriter,
          muReaders,
          pc, op, ret, stopCtxDone, cmds, waiter, file, timers, tick,
          pipe, emitted, outputChan, chanClosed, hist>>

supVars == <<running, cmd, processState, startTime, config>>
lockVars == <<muWriter, muReaders>>
envVars == <<stopCtxDone, cmds, waiter, file, timers, tick>>
diagVars == <<pipe, emitted, outputChan, chanClosed, hist>>

\* The cfg the constructor is given and stores, StartTime aside: width, height,
\* fps, bitrate, codec, profile, keyframe interval, quality.
Constructed == "cfg"

\* strings.HasSuffix
HasSuffix(s, suffix) ==
    /\ Len(s) >= Len(suffix)
    /\ SubSeq(s, Len(s) - Len(suffix) + 1, Len(s)) = suffix

\* strings.TrimSuffix
TrimSuffix(s, suffix) ==
    IF HasSuffix(s, suffix) THEN SubSeq(s, 1, Len(s) - Len(suffix)) ELSE s

\* filepath.Ext: the suffix beginning at the final dot in the final element of
\* path, empty if there is no dot.
Ext(path) ==
    LET dots == {i \in 1..Len(path) :
                    /\ path[i] = "."
                    /\ \A j \in i..Len(path) : path[j] # "/"}
    IN  IF dots = {} THEN <<>>
        ELSE SubSeq(path, CHOOSE i \in dots : \A j \in dots : j <= i, Len(path))

DotTs == <<".", "t", "s">>

\* A resolution that appends ".ts" whatever the path ends in.
ResolveAppend(path) == path \o DotTs

\* NewMacOSCamera: ensure .ts extension for MPEG-TS format.
ResolvePath(path) ==
    IF ~HasSuffix(path, DotTs)
    THEN TrimSuffix(path, Ext(path)) \o DotTs
    ELSE path

\* The output path the supervisor of the main specification is constructed
\* with: the macOS constructor resolves it, the Raspberry Pi one stores it.
GivenPath == <<"v">>

\* SnapshotHandler.Start has run: the goroutine of startResultLogger is in
\* its loop, the ctx is live, the uploader has published nothing.
\* logger: "running" | "returned"; ctxDone: ctx.Done() is closed; results: the
\* channel of uploader.Results(), each result by its Success field;
\* published: results sent so far; logged: the results the logger received.
Started == [logger |-> "running", ctxDone |-> FALSE, results |-> <<>>,
            published |-> 0, logged |-> <<>>]

\* An exec.Cmd not yet created.
\* ctxDone: the ctx it was made with is done; ctxErr: os/exec killed it for that;
\* proc: "none" | "alive" | "exited"; exit: how the process ended; sigs: signals
\* sent to it; obeys: it honours SIGINT/SIGTERM; reaped: it was waited for;
\* state: cmd.ProcessState.
NoCmd == [ctxDone |-> FALSE, ctxErr |-> FALSE, proc |-> "none", exit |-> "none",
          sigs |-> {}, obeys |-> FALSE, reaped |-> FALSE, state |-> "nil"]

\* done: the buffered channel (capacity 1) the goroutine sends cmd.Wait's error on.
EmptyDone == [full |-> FALSE, err |-> <<>>]

NoWaiter == [pc |-> "none", target |-> 0, done |-> EmptyDone]

\* created: the subprocess created or wrote the output target;
\* fatalEarly: it wrote a fatal line while the target was not there.
NoHist == [created |-> FALSE, fatalEarly |-> FALSE]

Init ==
    /\ variant \in {"macos", "rpi"}
    /\ snap = Started
    /\ outputPath = IF variant = "macos" THEN ResolvePath(GivenPath)
                    ELSE GivenPath
    /\ running = FALSE
    /\ cmd = 0
    /\ processState = "nil"
    /\ startTime = 0
    /\ config = Constructed
    /\ muWriter = NoTask
    /\ muReaders = {}
    /\ pc = [t \in Tasks |-> "idle"]
    /\ op = [t \in Tasks |-> "none"]
    /\ ret = [t \in Tasks |-> "none"]
    /\ stopCtxDone = FALSE
    /\ cmds = [k \in CmdIds |-> NoCmd]
    /\ waiter = [k \in CmdIds |-> NoWaiter]
    /\ file \in {"absent", "empty", "data", "fifo"}
    /\ timers = [startTimer |-> "idle", shutdownTimer |-> "idle"]
    /\ tick = FALSE
    /\ pipe = <<>>
    /\ emitted = 0
    /\ outputChan = <<>>
    /\ chanClosed = FALSE
    /\ hist = NoHist

\* ------------------------------------------------------------------ library

\* time.NewTimer
NewTimer == "armed"

\* (*time.Timer).Stop: a timer that has not fired never will.
TimerStop(s) == IF s = "armed" THEN "stopped" ELSE s

\* (*os.Process).Signal fails with "os: process already finished" once the
\* process has been waited for; a signal to a zombie succeeds and does nothing.
SignalFails(k) == cmds[k].reaped

\* cmds after Process.Signal(sig) on cmd k.
SendSignal(cs, k, sig) ==
    IF cs[k].reaped THEN cs
    ELSE [cs EXCEPT ![k].sigs = @ \cup {sig}]

\* (*os.ProcessState).Exited: the program called exit, it was not signalled.
Exited(st) == st \in {"ok", "fail"}

\* The text of the error cmd.Wait returns for an exit, word by word: nil for
\* status 0, else (*ExitError).Error() = ProcessState.String().
WaitErr(kind) ==
    CASE kind = "ok" -> <<>>
      [] kind = "fail" -> <<"exit", "status", "1">>
      [] kind = "killed" -> <<"signal:", "killed">>
      [] kind = "interrupt" -> <<"signal:", "interrupt">>
      [] kind = "terminated" -> <<"signal:", "terminated">>
      [] OTHER -> <<"wait:", "no", "child", "processes">>

ErrNotStarted == <<"exec:", "not", "started">>
ErrWaitCalled == <<"exec:", "Wait", "was", "already", "called">>
ErrNoChild == <<"wait:", "no", "child", "processes">>
ErrCanceled == <<"context", "canceled">>

\* strings.Contains(err.Error(), word)
Contains(msg, word) == \E i \in 1..Len(msg) : msg[i] = word

\* ------------------------------------------------------------------ helpers

\* What os.Stat(outputPath) shows the loop: a fifo, or a file with size > 0.
TargetReady(f) == f \in {"fifo", "data"}

LockFree == muWriter = NoTask /\ muReaders = {}

PrimarySignal == IF variant = "macos" THEN "INT" ELSE "TERM"

InLoop == \E t \in Tasks : pc[t] = "start_loop"

\* The call of task t returns r to its caller.
Return(t, r) ==
    /\ pc' = [pc EXCEPT ![t] = "done"]
    /\ ret' = [ret EXCEPT ![t] = r]

\* c.config.StartTime = time.Now() with every other field gone.
StartTimeOnly(cfg) == "zero"

\* c.config.StartTime = time.Now(): the other fields of c.config after it.
SetStartTime(cfg) == cfg

\* The readiness loop is over: its timers are stopped, and what the scanner
\* and the subprocess's stderr do from here on is no longer followed.
LoopOver ==
    /\ timers' = [timers EXCEPT !.startTimer = "idle"]
    /\ tick' = FALSE
    /\ pipe' = <<>>
    /\ emitted' = 0
    /\ outputChan' = <<>>
    /\ chanClosed' = FALSE
    /\ hist' = NoHist

\* The readiness loop is over, its timers are stopped, and the scanner and the
\* subprocess's stderr are followed further; a line the last select received
\* is gone from the channel.
LoopLeft(hasLine) ==
    /\ timers' = [timers EXCEPT !.startTimer = "idle"]
    /\ tick' = FALSE
    /\ outputChan' = IF hasLine THEN Tail(outputChan) ELSE outputChan
    /\ UNCHANGED <<pipe, emitted, chanClosed, hist>>

\* ------------------------------------------------------------------ callers

\* A caller enters an operation: Start and Stop queue for c.mu.Lock(), the
\* locked accessors for c.mu.RLock(). At most MaxCmd exec.Cmd objects are
\* created in a run: a Start that would need one more is not made.
Call(t, o) ==
    /\ pc[t] \in {"idle", "done"}
    /\ MayCall(t, o)
    /\ o = "Start" => (cmd < MaxCmd \/ running)
    /\ pc' = [pc EXCEPT ![t] =
                CASE o = "Start" -> "start_wait"
                  [] o = "Stop" -> "stop_wait"
                  [] o = "Accessor" -> "acc_wait"
                  [] OTHER -> "name"]
    /\ op' = [op EXCEPT ![t] = o]
    /\ ret' = [ret EXCEPT ![t] = "none"]
    /\ UNCHANGED <<variant, outputPath, snap, supVars, lockVars, envVars, diagVars>>

\* ------------------------------------------------------------------ Start

\* if c.running { return nil }
StartNoop(t) ==
    /\ Return(t, "nil")
    /\ UNCHANGED <<variant, outputPath, snap, supVars, lockVars, op, envVars, diagVars>>

\* An exec.Cmd whose cmd.Start left a process behind although it failed.
NewCmdAlwaysSpawns(spawned, obeys) ==
    [NoCmd EXCEPT !.proc = "alive", !.obeys = obeys]

\* An exec.Cmd whose cmd.Start left no process behind.
NewCmdNoProcess(spawned, obeys) == NoCmd

\* exec.CommandContext(ctx, ...) followed by cmd.Start(): the new exec.Cmd, with
\* a live process unless the spawn fails (cmd.Start fails too when ctx is
\* already done).
NewCmd(spawned, obeys) ==
    [NoCmd EXCEPT !.proc = IF spawned THEN "alive" ELSE "none",
                  !.obeys = spawned /\ obeys]

\* c.cmd = exec.CommandContext(...): the supervisor lets go of the exec.Cmd it
\* held. What lives on of it is the OS process, if it is still there, and a
\* goroutine of Stop that has not yet read c.cmd.
Dropped(c) ==
    IF c.proc = "alive"
    THEN [NoCmd EXCEPT !.proc = "alive", !.sigs = c.sigs, !.obeys = c.obeys,
                       !.ctxDone = c.ctxDone, !.ctxErr = c.ctxErr]
    ELSE [NoCmd EXCEPT !.proc = c.proc]

\* cmds after c.cmd = c, the k-th exec.Cmd.
Assign(k, c) ==
    [j \in CmdIds |-> IF j = k THEN c ELSE Dropped(cmds[j])]

\* The goroutines of Stop that outlive the exec.Cmd they were spawned for, in
\* what they can still do to the supervisor: read c.cmd and wait on it.
Orphans ==
    [j \in CmdIds |-> IF waiter[j].pc = "spawned" THEN waiter[j] ELSE NoWaiter]

\* MacOSCamera.Start from the directory creation to the armed timers. What a
\* call returns: "nil", or the error by its place: "mkdir", "pipe", "start",
\* "ctx", "exited", "nofile" (Start), "exit_error", "kill_failed", "ctx" (Stop).
StartMacOS(t) ==
    \E mkdirOk \in BOOLEAN, removeOk \in BOOLEAN, pipeOk \in BOOLEAN,
       startOk \in BOOLEAN, obeys \in BOOLEAN :
        IF ~mkdirOk
        THEN /\ Return(t, "mkdir")
             /\ UNCHANGED <<variant, outputPath, snap, supVars, lockVars, op, envVars, diagVars>>
        ELSE LET k == cmd + 1
                 spawned == pipeOk /\ startOk
             IN  /\ file' = IF file \in {"empty", "data"} /\ removeOk
                            THEN "absent" ELSE file
                 /\ cmd' = k
                 /\ cmds' = Assign(k, NewCmd(spawned, obeys))
                 /\ waiter' = Orphans
                 /\ IF spawned
                    THEN /\ timers' = [timers EXCEPT !.startTimer = NewTimer]
                         /\ pc' = [pc EXCEPT ![t] = "start_loop"]
                         /\ muWriter' = t
                         /\ UNCHANGED ret
                    ELSE /\ Return(t, IF pipeOk THEN "start" ELSE "pipe")
                         /\ UNCHANGED <<timers, muWriter>>
                 /\ UNCHANGED <<variant, outputPath, snap, running, processState, startTime,
                                config, muReaders, op, stopCtxDone, tick,
                                diagVars>>

\* RaspberryPiCamera.Start setting running without the stamp.
StartRaspberryPiNoStamp(t) ==
    \E spawned \in BOOLEAN, obeys \in BOOLEAN :
        LET k == cmd + 1
        IN  /\ cmd' = k
            /\ cmds' = Assign(k, NewCmd(spawned, obeys))
            /\ waiter' = Orphans
            /\ running' = spawned
            /\ Return(t, IF spawned THEN "nil" ELSE "start")
            /\ UNCHANGED <<variant, outputPath, snap, processState, startTime,
                           config, lockVars, op, stopCtxDone, file, timers,
                           tick, diagVars>>

\* RaspberryPiCamera.Start after the running check.
StartRaspberryPi(t) ==
    \E spawned \in BOOLEAN, obeys \in BOOLEAN :
        LET k == cmd + 1
        IN  /\ cmd' = k
            /\ cmds' = Assign(k, NewCmd(spawned, obeys))
            /\ waiter' = Orphans
            /\ running' = spawned
            /\ startTime' = IF spawned THEN k ELSE startTime
            /\ config' = IF spawned THEN SetStartTime(config) ELSE config
            /\ Return(t, IF spawned THEN "nil" ELSE "start")
            /\ UNCHANGED <<variant, outputPath, snap, processState, lockVars, op, stopCtxDone,
                           file, timers, tick, diagVars>>

\* Start without its running check.
StartBodyUnchecked(t) ==
    IF variant = "macos" THEN StartMacOS(t) ELSE StartRaspberryPi(t)

\* Start once c.mu.Lock() is granted.
StartBody(t) ==
    IF running THEN StartNoop(t)
    ELSE IF variant = "macos" THEN StartMacOS(t)
    ELSE StartRaspberryPi(t)

StartBegin(t) ==
    /\ pc[t] = "start_wait"
    /\ LockFree
    /\ StartBody(t)

\* A select that takes its cases in an order of preference, the receive from
\* outputChan first: a closed channel is always ready.
StartReadyLineFirst ==
    {ch \in {"ctx", "timer", "tick", "line"} :
        IF outputChan # <<>> \/ chanClosed THEN ch = "line"
        ELSE \/ ch = "ctx" /\ cmds[cmd].ctxDone
             \/ ch = "timer" /\ timers.startTimer = "fired"
             \/ ch = "tick" /\ tick}

\* The cases of the readiness loop's select that can proceed.
StartReady ==
    {ch \in {"ctx", "timer", "tick", "line"} :
        \/ ch = "ctx" /\ cmds[cmd].ctxDone
        \/ ch = "timer" /\ timers.startTimer = "fired"
        \/ ch = "tick" /\ tick
        \/ ch = "line" /\ (outputChan # <<>> \/ chanClosed)}

\* The code after the loop without the kill on failure.
PostLoopNoKill(k, fileCreated, startupFailed) ==
    IF cmds[k].state # "nil" /\ Exited(cmds[k].state)
    THEN [ret |-> "exited", kill |-> FALSE, run |-> FALSE]
    ELSE IF startupFailed /\ ~fileCreated
    THEN [ret |-> "nofile", kill |-> FALSE, run |-> FALSE]
    ELSE [ret |-> "nil", kill |-> FALSE, run |-> TRUE]

\* The code after the loop: the exited check, the kill on failure, success.
PostLoop(k, fileCreated, startupFailed) ==
    IF cmds[k].state # "nil" /\ Exited(cmds[k].state)
    THEN [ret |-> "exited", kill |-> FALSE, run |-> FALSE]
    ELSE IF startupFailed /\ ~fileCreated
    THEN [ret |-> "nofile", kill |-> TRUE, run |-> FALSE]
    ELSE [ret |-> "nil", kill |-> FALSE, run |-> TRUE]

\* The ctx case of the loop without its Kill.
CtxCaseNoKill == [ret |-> "ctx", kill |-> FALSE, run |-> FALSE]

\* case <-ctx.Done(): c.cmd.Process.Kill(); return ctx.Err()
CtxCase == [ret |-> "ctx", kill |-> TRUE, run |-> FALSE]

\* A poll that takes any file there is, whatever its size.
FileCheckAnySize(f) == f # "absent"

\* if stat.Mode()&os.ModeNamedPipe != 0 {...} else if stat.Size() > 0 {...}
FileCheck(f) == TargetReady(f)

\* The startup-failure phrases of the line case.
LineFails(line) == line = "fatal"

\* One iteration of the readiness loop: select takes any case that can
\* proceed; the loop is left when fileCreated or startupFailed is set, or by
\* the return of the ctx case. followed: the diagnostic stream is followed
\* past the end of the loop.
LoopCase(t, ch, followed) ==
    /\ pc[t] = "start_loop"
    /\ ch \in StartReady
    /\ LET k == cmd
            hasLine == ch = "line" /\ outputChan # <<>>
            fileCreated == ch = "tick" /\ FileCheck(file)
            startupFailed ==
                \/ ch = "timer"
                \/ hasLine /\ LineFails(Head(outputChan))
            res == IF ch = "ctx" THEN CtxCase
                   ELSE PostLoop(k, fileCreated, startupFailed)
        IN  /\ IF ch = "ctx" \/ fileCreated \/ startupFailed
               THEN /\ cmds' = IF res.kill THEN SendSignal(cmds, k, "KILL")
                               ELSE cmds
                    /\ running' = res.run
                    /\ startTime' = IF res.run THEN k ELSE startTime
                    /\ config' = IF res.run THEN SetStartTime(config)
                                 ELSE config
                    /\ Return(t, res.ret)
                    /\ muWriter' = NoTask
                    /\ IF followed THEN LoopLeft(hasLine) ELSE LoopOver
               ELSE /\ tick' = IF ch = "tick" THEN FALSE ELSE tick
                    /\ outputChan' = IF hasLine THEN Tail(outputChan)
                                     ELSE outputChan
                    /\ UNCHANGED <<cmds, running, startTime, config, pc, ret,
                                   muWriter, timers, pipe, emitted, chanClosed,
                                   hist>>
            /\ UNCHANGED <<variant, outputPath, snap, cmd, processState, muReaders, op,
                           stopCtxDone, waiter, file>>

\* The select of the loop takes one of its cases.
LoopStep(t, followed) ==
    \E ch \in {"ctx", "timer", "tick", "line"} : LoopCase(t, ch, followed)

StartSelect(t) == LoopStep(t, FALSE)

\* ------------------------------------------------------------------ Stop

\* A no-op Stop that clears c.config.StartTime as well.
StopNoopZeroTime(t) ==
    /\ running' = FALSE
    /\ startTime' = 0
    /\ Return(t, "nil")
    /\ UNCHANGED <<variant, outputPath, snap, cmd, processState, config, lockVars, op, envVars,
                   diagVars>>

\* A no-op Stop that clears c.processState as well.
StopNoopDropsRecord(t) ==
    /\ running' = FALSE
    /\ processState' = "nil"
    /\ Return(t, "nil")
    /\ UNCHANGED <<variant, outputPath, snap, cmd, startTime, config, lockVars, op, envVars,
                   diagVars>>

\* if !c.running || c.cmd == nil || c.cmd.Process == nil
\*     { c.running = false; return nil }
StopNoop(t) ==
    /\ running' = FALSE
    /\ Return(t, "nil")
    /\ UNCHANGED <<variant, outputPath, snap, cmd, processState, startTime, config, lockVars,
                   op, envVars, diagVars>>

\* The channel of the select's timer case: the function literal creates the
\* timer, its deferred Stop runs as the literal returns, and the channel of the
\* stopped timer is what select waits on.
GraceTimerChan == TimerStop(NewTimer)

\* Stop sending SIGTERM after its first signal whether or not that one failed.
StopSignalsBoth(k) ==
    SendSignal(SendSignal(cmds, k, PrimarySignal), k, "TERM")

\* The signals Stop sends first: SIGINT, then SIGTERM if sending SIGINT failed
\* (macOS); SIGTERM alone (Raspberry Pi).
StopSignals(k) ==
    LET cs1 == SendSignal(cmds, k, PrimarySignal)
    IN  IF SignalFails(k) /\ variant = "macos"
        THEN SendSignal(cs1, k, "TERM")
        ELSE cs1

\* Stop from the signal to the select: the signals, the goroutine around
\* cmd.Wait with its channel done, the timer of the grace period.
StopSequence(t) ==
    LET k == cmd
    IN  /\ cmds' = StopSignals(k)
        /\ waiter' = [waiter EXCEPT ![k] =
                        [pc |-> "spawned", target |-> 0, done |-> EmptyDone]]
        /\ timers' = [timers EXCEPT !.shutdownTimer = GraceTimerChan]
        /\ pc' = [pc EXCEPT ![t] = "stop_select"]
        /\ muWriter' = t
        /\ UNCHANGED <<variant, outputPath, snap, supVars, muReaders, op, ret, stopCtxDone,
                       file, tick, diagVars>>

\* Stop without its not-running check: the shutdown sequence whenever there
\* is a process.
StopBodyUnchecked(t) ==
    IF cmd = 0 \/ cmds[cmd].proc = "none"
    THEN StopNoop(t)
    ELSE StopSequence(t)

\* Stop once c.mu.Lock() is granted.
StopBody(t) ==
    IF ~running \/ cmd = 0 \/ cmds[cmd].proc = "none"
    THEN StopNoop(t)
    ELSE StopSequence(t)

StopBegin(t) ==
    /\ pc[t] = "stop_wait"
    /\ LockFree
    /\ StopBody(t)

\* What Stop can proceed on: a case of its select, or, after the kill of the
\* timer case, the receive from done.
StopReady(t) ==
    IF pc[t] = "stop_drain"
    THEN {ch \in {"drained"} : waiter[cmd].done.full}
    ELSE {ch \in {"done", "timer", "ctx"} :
            \/ ch = "done" /\ waiter[cmd].done.full
            \/ ch = "timer" /\ timers.shutdownTimer = "fired"
            \/ ch = "ctx" /\ stopCtxDone}

\* The result of the done case: an error unless err is nil or mentions "killed".
DoneResult(err) ==
    IF err # <<>> /\ ~Contains(err, "killed") THEN "exit_error" ELSE "nil"

\* The cases of Stop with a ctx case that leaves c.running as it is.
StopCaseKeepsRunning(ch, k) ==
    CASE ch = "done" ->
            [ret |-> DoneResult(waiter[k].done.err), kill |-> FALSE,
             capture |-> TRUE, run |-> FALSE]
      [] ch = "timer" ->
            IF SignalFails(k)
            THEN [ret |-> "kill_failed", kill |-> TRUE, capture |-> FALSE,
                  run |-> running]
            ELSE [ret |-> "", kill |-> TRUE, capture |-> FALSE, run |-> running]
      [] ch = "drained" ->
            [ret |-> "nil", kill |-> FALSE, capture |-> TRUE, run |-> FALSE]
      [] ch = "ctx" ->
            [ret |-> "ctx", kill |-> TRUE, capture |-> FALSE, run |-> running]

\* The cases of Stop with a ctx case that does not call Kill.
StopCaseCtxNoKill(ch, k) ==
    CASE ch = "done" ->
            [ret |-> DoneResult(waiter[k].done.err), kill |-> FALSE,
             capture |-> TRUE, run |-> FALSE]
      [] ch = "timer" ->
            IF SignalFails(k)
            THEN [ret |-> "kill_failed", kill |-> TRUE, capture |-> FALSE,
                  run |-> running]
            ELSE [ret |-> "", kill |-> TRUE, capture |-> FALSE, run |-> running]
      [] ch = "drained" ->
            [ret |-> "nil", kill |-> FALSE, capture |-> TRUE, run |-> FALSE]
      [] ch = "ctx" ->
            [ret |-> "ctx", kill |-> FALSE, capture |-> FALSE, run |-> FALSE]

\* What one case does: the result ("" when Stop goes on to <-done), whether
\* Kill is called, whether the exit record is captured, running afterwards.
StopCase(ch, k) ==
    CASE ch = "done" ->
            [ret |-> DoneResult(waiter[k].done.err), kill |-> FALSE,
             capture |-> TRUE, run |-> FALSE]
      [] ch = "timer" ->
            IF SignalFails(k)
            THEN [ret |-> "kill_failed", kill |-> TRUE, capture |-> FALSE,
                  run |-> running]
            ELSE [ret |-> "", kill |-> TRUE, capture |-> FALSE, run |-> running]
      [] ch = "drained" ->
            [ret |-> "nil", kill |-> FALSE, capture |-> TRUE, run |-> FALSE]
      [] ch = "ctx" ->
            [ret |-> "ctx", kill |-> TRUE, capture |-> FALSE, run |-> FALSE]

\* The select of Stop and the receive after the timer case.
StopWait(t) ==
    /\ pc[t] \in {"stop_select", "stop_drain"}
    /\ \E ch \in StopReady(t) :
        LET k == cmd
            res == StopCase(ch, k)
        IN  /\ cmds' = IF res.kill THEN SendSignal(cmds, k, "KILL") ELSE cmds
            /\ processState' = IF res.capture THEN cmds[k].state
                               ELSE processState
            /\ running' = res.run
            /\ waiter' = IF ch \in {"done", "drained"}
                         THEN [waiter EXCEPT ![k] = NoWaiter]
                         ELSE waiter
            /\ IF res.ret = ""
               THEN /\ pc' = [pc EXCEPT ![t] = "stop_drain"]
                    /\ UNCHANGED <<ret, muWriter, timers, stopCtxDone>>
               ELSE /\ Return(t, res.ret)
                    /\ muWriter' = NoTask
                    /\ timers' = [timers EXCEPT !.shutdownTimer = "idle"]
                    /\ stopCtxDone' = FALSE
            /\ UNCHANGED <<variant, outputPath, snap, cmd, startTime, config, muReaders, op,
                           file, tick, diagVars>>

\* go func() { done <- c.cmd.Wait() }(): the goroutine reads c.cmd when it
\* runs, and cmd.Wait returns at once on a command that was not started or
\* whose ProcessState is already set.
WaiterCall(w) ==
    /\ waiter[w].pc = "spawned"
    /\ LET k == cmd
       IN  waiter' = [waiter EXCEPT ![w] =
                IF cmds[k].proc = "none"
                THEN [pc |-> "finished", target |-> k,
                      done |-> [full |-> TRUE, err |-> ErrNotStarted]]
                ELSE IF cmds[k].state # "nil"
                THEN [pc |-> "finished", target |-> k,
                      done |-> [full |-> TRUE, err |-> ErrWaitCalled]]
                ELSE [@ EXCEPT !.pc = "waiting", !.target = k]]
    /\ UNCHANGED <<variant, outputPath, snap, supVars, lockVars, pc, op, ret, stopCtxDone,
                   cmds, file, timers, tick, diagVars>>

\* The error of the cmd.Wait that reaps the process: nil for status 0, unless
\* os/exec killed for the ctx, then ctx.Err(); an ExitError otherwise.
ReapErr(c) ==
    IF c.exit = "ok" /\ c.ctxErr THEN ErrCanceled ELSE WaitErr(c.exit)

\* cmd.Wait returns once the process has exited: the first Wait reaps it and
\* sets cmd.ProcessState; a Wait that finds it already reaped gets an error
\* and a nil state, which it stores too: an unsynchronised write, that lands
\* before or after the write of the first.
WaiterReap(w) ==
    /\ waiter[w].pc = "waiting"
    /\ LET k == waiter[w].target
       IN  /\ cmds[k].proc = "exited"
           /\ IF ~cmds[k].reaped
              THEN /\ cmds' = [cmds EXCEPT ![k].reaped = TRUE,
                                           ![k].state = cmds[k].exit]
                   /\ waiter' = [waiter EXCEPT ![w].pc = "finished",
                        ![w].done = [full |-> TRUE, err |-> ReapErr(cmds[k])]]
              ELSE /\ \E st \in {"nil", cmds[k].state} :
                        cmds' = [cmds EXCEPT ![k].state = st]
                   /\ waiter' = [waiter EXCEPT ![w].pc = "finished",
                        ![w].done = [full |-> TRUE, err |-> ErrNoChild]]
    /\ UNCHANGED <<variant, outputPath, snap, supVars, lockVars, pc, op, ret, stopCtxDone,
                   file, timers, tick, diagVars>>

\* ------------------------------------------------------------------ accessors

\* IsRunning, GetConfig and GetOutputPath have one shape: c.mu.RLock(), the
\* deferred RUnlock, the read of a field. What each returns while it holds
\* the read lock:
IsRunning == running
GetConfig == [startTime |-> startTime, fields |-> config]
GetOutputPath == outputPath

\* c.mu.RLock() is granted while no task holds Lock.
AccRead(t) ==
    /\ pc[t] = "acc_wait"
    /\ muWriter = NoTask
    /\ muReaders' = muReaders \cup {t}
    /\ pc' = [pc EXCEPT ![t] = "acc_read"]
    /\ UNCHANGED <<variant, outputPath, snap, supVars, muWriter, op, ret, envVars, diagVars>>

\* return with the deferred c.mu.RUnlock().
AccReturn(t) ==
    /\ pc[t] = "acc_read"
    /\ muReaders' = muReaders \ {t}
    /\ pc' = [pc EXCEPT ![t] = "idle"]
    /\ op' = [op EXCEPT ![t] = "none"]
    /\ UNCHANGED <<variant, outputPath, snap, supVars, muWriter, ret, envVars, diagVars>>

\* GetName takes no lock and returns a constant.
GetName(t) ==
    /\ pc[t] = "name"
    /\ pc' = [pc EXCEPT ![t] = "idle"]
    /\ op' = [op EXCEPT ![t] = "none"]
    /\ UNCHANGED <<variant, outputPath, snap, supVars, lockVars, ret, envVars, diagVars>>

\* ------------------------------------------------------------------ environment

\* The ctx Start was given for c.cmd is cancelled, during the call or after it.
CancelStart ==
    /\ cmd # 0
    /\ cmds[cmd].proc # "none"
    /\ ~cmds[cmd].ctxDone
    /\ InLoop \/ ~cmds[cmd].reaped
    /\ cmds' = [cmds EXCEPT ![cmd].ctxDone = TRUE]
    /\ UNCHANGED <<variant, outputPath, snap, supVars, lockVars, pc, op, ret, stopCtxDone,
                   waiter, file, timers, tick, diagVars>>

\* The ctx of the Stop call that is inside its select is cancelled, or its
\* deadline passes (a ctx that was done at the call is the same to select).
CancelStop ==
    /\ \E t \in Tasks : pc[t] \in {"stop_select", "stop_drain"}
    /\ ~stopCtxDone
    /\ stopCtxDone' = TRUE
    /\ UNCHANGED <<variant, outputPath, snap, supVars, lockVars, pc, op, ret, cmds, waiter,
                   file, timers, tick, diagVars>>

\* exec.CommandContext: once the command's ctx is done os/exec kills the
\* process, once; the kill fails when the process has been waited for.
CtxKill(k) ==
    /\ cmds[k].proc # "none"
    /\ cmds[k].ctxDone
    /\ ~cmds[k].ctxErr
    /\ ~cmds[k].reaped
    /\ cmds' = [SendSignal(cmds, k, "KILL") EXCEPT ![k].ctxErr = TRUE]
    /\ UNCHANGED <<variant, outputPath, snap, supVars, lockVars, pc, op, ret, stopCtxDone,
                   waiter, file, timers, tick, diagVars>>

\* A timer that is running fires: its channel holds a value.
TimerFire(tm) ==
    /\ timers[tm] = "armed"
    /\ timers' = [timers EXCEPT ![tm] = "fired"]
    /\ UNCHANGED <<variant, outputPath, snap, supVars, lockVars, pc, op, ret, stopCtxDone,
                   cmds, waiter, file, tick, diagVars>>

\* fileCheckTicker delivers a tick while the readiness loop runs.
TickerFire ==
    /\ InLoop
    /\ ~tick
    /\ tick' = TRUE
    /\ UNCHANGED <<variant, outputPath, snap, supVars, lockVars, pc, op, ret, stopCtxDone,
                   cmds, waiter, file, timers, diagVars>>

\* The exit of a process.
ExitProc(k, kind) ==
    [cmds EXCEPT ![k].proc = "exited", ![k].exit = kind, ![k].obeys = FALSE]

\* A process that runs: one that was sent SIGKILL only dies.
Runs(k) == cmds[k].proc = "alive" /\ "KILL" \notin cmds[k].sigs

\* SIGKILL cannot be caught: the process dies of it, some time after the send.
ProcKilled(k) ==
    /\ cmds[k].proc = "alive"
    /\ "KILL" \in cmds[k].sigs
    /\ cmds' = ExitProc(k, "killed")
    /\ UNCHANGED <<variant, outputPath, snap, supVars, lockVars, pc, op, ret, stopCtxDone,
                   waiter, file, timers, tick, diagVars>>

\* A process that honours SIGINT or SIGTERM ends: it exits with status 0 or with
\* an error status from its handler, or it dies of the signal.
ProcObeys(k, kind) ==
    /\ Runs(k)
    /\ cmds[k].obeys
    /\ \/ kind \in {"ok", "fail"} /\ cmds[k].sigs \cap {"INT", "TERM"} # {}
       \/ kind = "interrupt" /\ "INT" \in cmds[k].sigs
       \/ kind = "terminated" /\ "TERM" \in cmds[k].sigs
    /\ cmds' = ExitProc(k, kind)
    /\ UNCHANGED <<variant, outputPath, snap, supVars, lockVars, pc, op, ret, stopCtxDone,
                   waiter, file, timers, tick, diagVars>>

\* A process ends by itself: the camera is unplugged, the encoder crashes.
ProcExits(k, kind) ==
    /\ Runs(k)
    /\ cmds' = ExitProc(k, kind)
    /\ UNCHANGED <<variant, outputPath, snap, supVars, lockVars, pc, op, ret, stopCtxDone,
                   waiter, file, timers, tick, diagVars>>

\* The subprocess creates its output file, then writes data to it.
ProcWrites(k) ==
    /\ Runs(k)
    /\ file \in {"absent", "empty"}
    /\ file' = IF file = "absent" THEN "empty" ELSE "data"
    /\ hist' = IF InLoop /\ k = cmd THEN [hist EXCEPT !.created = TRUE] ELSE hist
    /\ UNCHANGED <<variant, outputPath, snap, supVars, lockVars, pc, op, ret, stopCtxDone,
                   cmds, waiter, timers, tick, pipe, emitted, outputChan,
                   chanClosed>>

\* The ffmpeg of c.cmd writes a line to stderr while Start is in its loop.
ProcEmits(tag) ==
    /\ InLoop
    /\ Runs(cmd)
    /\ emitted < MaxLines
    /\ emitted' = emitted + 1
    /\ pipe' = Append(pipe, tag)
    /\ hist' = [hist EXCEPT !.fatalEarly =
                    @ \/ (tag = "fatal" /\ ~TargetReady(file))]
    /\ UNCHANGED <<variant, outputPath, snap, supVars, lockVars, pc, op, ret, envVars,
                   outputChan, chanClosed>>

\* The scanner goroutine: scanner.Scan() yields a line and outputChan <- line
\* proceeds when the channel has room.
ScannerSend ==
    /\ pipe # <<>>
    /\ ~chanClosed
    /\ Len(outputChan) < QueueCap
    /\ outputChan' = Append(outputChan, Head(pipe))
    /\ pipe' = Tail(pipe)
    /\ UNCHANGED <<variant, outputPath, snap, supVars, lockVars, pc, op, ret, envVars,
                   emitted, chanClosed, hist>>

\* scanner.Scan() returns false at the end of the stream, every line before it
\* sent: close(outputChan), and the goroutine ends.
ScannerEnds ==
    /\ cmd # 0
    /\ cmds[cmd].proc = "exited"
    /\ pipe = <<>>
    /\ ~chanClosed
    /\ chanClosed' = TRUE
    /\ UNCHANGED <<variant, outputPath, snap, supVars, lockVars, pc, op, ret, envVars, pipe,
                   emitted, outputChan, hist>>

\* The end of the scanner while Start is in its loop.
ScannerClose == InLoop /\ ScannerEnds

\* ------------------------------------------------------------------ specification

Next ==
    \/ \E t \in Tasks, o \in Operations : Call(t, o)
    \/ \E t \in Tasks : StartBegin(t)
    \/ \E t \in Tasks : StartSelect(t)
    \/ \E t \in Tasks : StopBegin(t)
    \/ \E t \in Tasks : StopWait(t)
    \/ \E w \in CmdIds : WaiterCall(w)
    \/ \E w \in CmdIds : WaiterReap(w)
    \/ \E t \in Tasks : AccRead(t)
    \/ \E t \in Tasks : AccReturn(t)
    \/ \E t \in Tasks : GetName(t)
    \/ CancelStart
    \/ CancelStop
    \/ \E k \in CmdIds : CtxKill(k)
    \/ \E tm \in DOMAIN timers : TimerFire(tm)
    \/ TickerFire
    \/ \E k \in CmdIds : ProcKilled(k)
    \/ \E k \in CmdIds, kind \in {"ok", "fail", "interrupt", "terminated"} :
            ProcObeys(k, kind)
    \/ \E k \in CmdIds, kind \in {"ok", "fail"} : ProcExits(k, kind)
    \/ \E k \in CmdIds : ProcWrites(k)
    \/ \E tag \in LineTags : ProcEmits(tag)
    \/ ScannerSend
    \/ ScannerClose

Spec == Init /\ [][Next]_vars

\* What the scheduler and the kernel see to: a goroutine that can run does, a
\* timer that is running fires, a process that was sent SIGKILL dies, os/exec
\* kills for a ctx that is done. Nothing makes a caller cancel, a process exit
\* by itself or honour a signal, or a file appear.
Fairness ==
    /\ WF_vars(\E t \in Tasks : StopWait(t))
    /\ WF_vars(\E w \in CmdIds : WaiterCall(w))
    /\ WF_vars(\E w \in CmdIds : WaiterReap(w))
    /\ WF_vars(\E tm \in DOMAIN timers : TimerFire(tm))
    /\ WF_vars(\E k \in CmdIds : ProcKilled(k))
    /\ WF_vars(\E k \in CmdIds : CtxKill(k))

FairSpec == Spec /\ Fairness

\* ------------------------------------------------------------------ the diagnostic stream

\* The first Start of a macOS supervisor and the life of its ffmpeg, the stderr
\* of ffmpeg and the scanner followed past the end of Start.

\* ffmpeg writes a line to stderr: it does for as long as it runs.
StderrWrite ==
    /\ cmd # 0
    /\ Runs(cmd)
    /\ emitted < MaxStderr
    /\ emitted' = emitted + 1
    /\ pipe' = Append(pipe, "info")
    /\ UNCHANGED <<variant, outputPath, snap, supVars, lockVars, pc, op, ret, envVars,
                   outputChan, chanClosed, hist>>

ScanSelect(t) == LoopStep(t, TRUE)

ScanInit == Init /\ variant = "macos"

ScanNext ==
    \/ cmd = 0 /\ Call("control", "Start")
    \/ StartBegin("control")
    \/ ScanSelect("control")
    \/ TimerFire("startTimer")
    \/ TickerFire
    \/ \E k \in CmdIds : k = cmd /\ ProcWrites(k)
    \/ \E k \in CmdIds, kind \in {"ok", "fail"} : k = cmd /\ ProcExits(k, kind)
    \/ StderrWrite
    \/ ScannerSend
    \/ ScannerEnds

\* The goroutines that can run do, the ticker and the timer deliver.
ScanFairness ==
    /\ WF_vars(ScanSelect("control"))
    /\ WF_vars(TimerFire("startTimer"))
    /\ WF_vars(TickerFire)
    /\ WF_vars(ScannerSend)
    /\ WF_vars(ScannerEnds)

ScanSpec == ScanInit /\ [][ScanNext]_vars /\ ScanFairness

\* ------------------------------------------------------------------ the readiness loop

\* The first Start of a macOS supervisor with everything that can happen to
\* its loop, and with the scheduling that makes the loop end.

\* ffmpeg closes its stderr while it runs on: the scanner finds the end of the
\* stream and closes outputChan.
StderrCloses ==
    /\ InLoop
    /\ Runs(cmd)
    /\ pipe = <<>>
    /\ ~chanClosed
    /\ chanClosed' = TRUE
    /\ UNCHANGED <<variant, outputPath, snap, supVars, lockVars, pc, op, ret,
                   envVars, pipe, emitted, outputChan, hist>>

LoopInit == Init /\ variant = "macos"

LoopNext ==
    \/ cmd = 0 /\ Call("control", "Start")
    \/ StartBegin("control")
    \/ StartSelect("control")
    \/ CancelStart
    \/ \E k \in CmdIds : k = cmd /\ CtxKill(k)
    \/ TimerFire("startTimer")
    \/ TickerFire
    \/ \E k \in CmdIds : k = cmd /\ ProcKilled(k)
    \/ \E k \in CmdIds, kind \in {"ok", "fail"} : k = cmd /\ ProcExits(k, kind)
    \/ \E k \in CmdIds : k = cmd /\ ProcWrites(k)
    \/ \E tag \in LineTags : ProcEmits(tag)
    \/ ScannerSend
    \/ ScannerClose
    \/ StderrCloses

\* The caller is granted the free lock; the timer fires; select chooses among
\* the cases that can proceed at random, so a case that stays ready is taken.
LoopFairness ==
    /\ WF_vars(StartBegin("control"))
    /\ WF_vars(TimerFire("startTimer"))
    /\ \A ch \in {"ctx", "timer", "tick", "line"} :
            WF_vars(LoopCase("control", ch, FALSE))

LoopSpec == LoopInit /\ [][LoopNext]_vars /\ LoopFairness

\* ------------------------------------------------------------------ the output path

\* The construction of a macOS supervisor with any output path, and its first
\* Start and its accessors afterwards.

RawPaths == UNION {[1..n -> Chars] : n \in 0..MaxPath}

\* Before NewMacOSCamera: outputPath is the argument of the constructor, and
\* no task can call yet.
PathInit ==
    /\ variant = "macos"
    /\ outputPath \in RawPaths
    /\ snap = Started
    /\ running = FALSE
    /\ cmd = 0
    /\ processState = "nil"
    /\ startTime = 0
    /\ config = Constructed
    /\ muWriter = NoTask
    /\ muReaders = {}
    /\ pc = [t \in Tasks |-> "new"]
    /\ op = [t \in Tasks |-> "none"]
    /\ ret = [t \in Tasks |-> "none"]
    /\ stopCtxDone = FALSE
    /\ cmds = [k \in CmdIds |-> NoCmd]
    /\ waiter = [k \in CmdIds |-> NoWaiter]
    /\ file = "absent"
    /\ timers = [startTimer |-> "idle", shutdownTimer |-> "idle"]
    /\ tick = FALSE
    /\ pipe = <<>>
    /\ emitted = 0
    /\ outputChan = <<>>
    /\ chanClosed = FALSE
    /\ hist = NoHist

NewMacOSCamera ==
    /\ \A t \in Tasks : pc[t] = "new"
    /\ outputPath' = ResolvePath(outputPath)
    /\ pc' = [t \in Tasks |-> "idle"]
    /\ UNCHANGED <<variant, snap, supVars, lockVars, op, ret, envVars, diagVars>>

PathNext ==
    \/ NewMacOSCamera
    \/ cmd = 0 /\ Call("control", "Start")
    \/ StartBegin("control")
    \/ StartSelect("control")
    \/ TimerFire("startTimer")
    \/ TickerFire
    \/ \E k \in CmdIds : k = cmd /\ ProcWrites(k)
    \/ Call("status", "Accessor")
    \/ AccRead("status")
    \/ AccReturn("status")

PathSpec == PathInit /\ [][PathNext]_vars

\* ------------------------------------------------------------------ the result logger

\* SnapshotHandler.startResultLogger and the uploader that publishes results,
\* src/cmd/tidskott-pi/components/snapshot.go.

\* Everything of the camera supervisor stays as it is.
cameraVars == <<variant, outputPath, supVars, lockVars, pc, op, ret, envVars,
                diagVars>>

\* The uploader publishes the result of an upload, a success or a failure.
Publish(success) ==
    /\ snap.published < MaxResults
    /\ Len(snap.results) < ResultsCap
    /\ snap' = [snap EXCEPT !.results = Append(@, success),
                            !.published = @ + 1]
    /\ UNCHANGED cameraVars

\* case result := <-sh.uploader.Results(): a success is logged and the
\* goroutine returns; a failure is logged and the loop goes on.
LoggerReceive ==
    /\ snap.logger = "running"
    /\ snap.results # <<>>
    /\ snap' = [snap EXCEPT !.results = Tail(@),
                            !.logged = Append(@, Head(snap.results)),
                            !.logger = IF Head(snap.results) THEN "returned"
                                       ELSE "running"]
    /\ UNCHANGED cameraVars

\* case <-ctx.Done(): return
LoggerCancelled ==
    /\ snap.logger = "running"
    /\ snap.ctxDone
    /\ snap' = [snap EXCEPT !.logger = "returned"]
    /\ UNCHANGED cameraVars

\* The ctx given to SnapshotHandler.Start is cancelled.
CancelHandler ==
    /\ ~snap.ctxDone
    /\ snap' = [snap EXCEPT !.ctxDone = TRUE]
    /\ UNCHANGED cameraVars

LoggerNext ==
    \/ \E success \in BOOLEAN : Publish(success)
    \/ LoggerReceive
    \/ LoggerCancelled
    \/ CancelHandler

\* The goroutine runs when its select has a case that can proceed.
LoggerFairness ==
    /\ WF_vars(LoggerReceive)
    /\ WF_vars(LoggerCancelled)

LoggerSpec == Init /\ [][LoggerNext]_vars /\ LoggerFairness

\* ------------------------------------------------------------------ properties

\* C1: in both variants a Start that is granted the lock while running is
\* true returns success and leaves the process handle and every exec.Cmd, so
\* the number of spawned subprocesses, as they were.
C1_StartIdempotent ==
    [][\A t \in Tasks :
        (pc[t] = "start_wait" /\ running /\ pc'[t] # "start_wait")
        => /\ pc'[t] = "done"
           /\ ret'[t] = "nil"
           /\ cmd' = cmd
           /\ cmds' = cmds
           /\ running']_vars

\* A Start was called on a running supervisor and holds nothing back: the lock
\* is free for it.
C1_Witness ==
    \E t \in Tasks :
        /\ pc[t] = "start_wait" /\ running /\ LockFree
        /\ cmds[cmd].proc = "alive"

\* C2: a Stop that is granted the lock while running is false returns
\* success, sends no signal to any process and leaves running false.
C2_StopNoop ==
    [][\A t \in Tasks :
        (pc[t] = "stop_wait" /\ ~running /\ pc'[t] # "stop_wait")
        => /\ pc'[t] = "done"
           /\ ret'[t] = "nil"
           /\ ~running'
           /\ \A k \in CmdIds : cmds'[k].sigs = cmds[k].sigs]_vars

\* Stop has returned success on a supervisor whose last Start failed and left
\* a process that is still there.
C2_Witness ==
    \E t \in Tasks :
        /\ op[t] = "Stop" /\ pc[t] = "done" /\ ret[t] = "nil"
        /\ ~running
        /\ cmd # 0 /\ cmds[cmd].proc = "alive" /\ processState = "nil"
        /\ \A k \in CmdIds : waiter[k] = NoWaiter

\* C3: a Start whose ctx is done while it is in its readiness loop leaves the
\* loop, whichever case its select takes, with the cancellation error, the kill
\* signal sent to the subprocess and running false.
C3_CancelDuringStart ==
    [][\A t \in Tasks :
        (pc[t] = "start_loop" /\ cmds[cmd].ctxDone /\ pc'[t] = "done")
        => /\ ret'[t] = "ctx"
           /\ "KILL" \in cmds'[cmd].sigs
           /\ ~running']_vars

\* A fatal line of this Start's subprocess is in its stderr pipe or in the
\* scanner's channel.
FatalEmitted ==
    \/ \E i \in 1..Len(pipe) : LineFails(pipe[i])
    \/ \E i \in 1..Len(outputChan) : LineFails(outputChan[i])

\* C4: a Start that leaves its loop while the output target is neither a named
\* pipe nor a non-empty file, its subprocess is alive, no fatal line was written
\* and its ctx is not done, returns the timeout error, after the startup timer
\* has fired, with the kill signal sent and running false.
C4_ReadinessTimeout ==
    [][\A t \in Tasks :
        (/\ pc[t] = "start_loop" /\ pc'[t] = "done"
         /\ ~TargetReady(file)
         /\ cmds[cmd].proc = "alive"
         /\ ~FatalEmitted
         /\ ~cmds[cmd].ctxDone)
        => /\ ret'[t] = "nofile"
           /\ timers.startTimer = "fired"
           /\ "KILL" \in cmds'[cmd].sigs
           /\ ~running']_vars

\* The startup timer has fired in a loop whose subprocess is alive, wrote
\* nothing and created nothing, with no cancellation.
C4_Witness ==
    \E t \in Tasks :
        /\ pc[t] = "start_loop"
        /\ timers.startTimer = "fired"
        /\ ~TargetReady(file) /\ ~hist.created
        /\ cmds[cmd].proc = "alive" /\ ~cmds[cmd].ctxDone
        /\ emitted = 0

\* C4 as stated: the same whenever the subprocess has not created its output
\* target, whatever is at the output path.
C4_AsStated ==
    [][\A t \in Tasks :
        (/\ pc[t] = "start_loop" /\ pc'[t] = "done"
         /\ ~hist.created
         /\ cmds[cmd].proc = "alive"
         /\ ~FatalEmitted
         /\ ~cmds[cmd].ctxDone)
        => /\ ret'[t] = "nofile"
           /\ timers.startTimer = "fired"
           /\ "KILL" \in cmds'[cmd].sigs
           /\ ~running']_vars

\* C5: a Start whose subprocess wrote a fatal line while the output target was
\* not there never leaves its loop with success.
C5_FatalNotMasked ==
    [][\A t \in Tasks :
        (pc[t] = "start_loop" /\ hist.fatalEarly /\ pc'[t] = "done")
        => (ret'[t] # "nil" /\ ~running')]_vars

\* The exec.Cmd behind c.cmd.
Cur == IF cmd = 0 THEN NoCmd ELSE cmds[cmd]

\* Stop waits in its select on a subprocess that is alive and does not
\* honour the signal it was sent.
Ignored(t) ==
    /\ pc[t] = "stop_select"
    /\ Cur.proc = "alive"
    /\ ~Cur.obeys

\* C6: a Stop that waits on a subprocess that ignores the primary signal
\* escalates: the kill signal is sent (by the grace period's end, or for a
\* cancellation), or the subprocess ends by itself and Stop returns.
C6_StopEscalates ==
    \A t \in Tasks :
        Ignored(t) ~> ("KILL" \in Cur.sigs \/ pc[t] = "done")

\* C7: an accessor call that has been made is never kept waiting: the read
\* lock it asks for can be granted in every state.
C7_AccessorsNeverBlock ==
    \A t \in Tasks : pc[t] = "acc_wait" => muWriter = NoTask

\* C8: at most one subprocess launched by the supervisor is alive.
C8_AtMostOneLive ==
    Cardinality({k \in CmdIds : cmds[k].proc = "alive"}) <= 1

\* C9: while running is true the supervisor holds an exec.Cmd whose process
\* was started (c.cmd and c.cmd.Process are not nil).
C9_RunningHasHandle ==
    running => (cmd # 0 /\ Cur.proc # "none")

\* Start has returned success and the supervisor is running on a live process.
C9_Witness ==
    \E t \in Tasks :
        /\ op[t] = "Start" /\ pc[t] = "done" /\ ret[t] = "nil"
        /\ running /\ Cur.proc = "alive"

\* C9 as stated: while running is true the process behind the handle is alive.
C9_AsStated ==
    running => (cmd # 0 /\ Cur.proc = "alive")

\* C10: a Stop that returns from the done case of its select returns success
\* when the subprocess exited with status 0 or was killed, the exit error for
\* every other exit, with running false and the exit record captured.
C10_StopResult ==
    [][\A t \in Tasks :
        (pc[t] = "stop_select" /\ pc'[t] = "done" /\ ret'[t] # "ctx")
        => /\ Cur.exit \in {"ok", "killed"} => ret'[t] = "nil"
           /\ Cur.exit \notin {"ok", "killed"} => ret'[t] = "exit_error"
           /\ ~running'
           /\ processState' # "nil"]_vars

\* C11: a Stop that went through its shutdown sequence returns, with success
\* or with an error, leaving running false; and running becomes true again
\* only in the step in which a Start returns success.
C11_StopEndsRunning ==
    [][/\ \A t \in Tasks :
            (pc[t] \in {"stop_select", "stop_drain"} /\ pc'[t] = "done")
            => ~running'
       /\ (~running /\ running')
            => \E t \in Tasks :
                /\ op[t] = "Start" /\ pc[t] # "done"
                /\ pc'[t] = "done" /\ ret'[t] = "nil"]_vars

\* Stop has returned the error of an abnormal exit and the supervisor is not
\* running.
C11_Witness ==
    \E t \in Tasks :
        /\ op[t] = "Stop" /\ pc[t] = "done" /\ ret[t] = "exit_error"
        /\ ~running

\* C12: a Start that returns an error from its readiness loop, so after its
\* subprocess was launched, has sent the kill signal to that subprocess or the
\* subprocess has exited, and running is false.
C12_FailedStartKills ==
    [][\A t \in Tasks :
        (pc[t] = "start_loop" /\ pc'[t] = "done" /\ ret'[t] # "nil")
        => /\ "KILL" \in cmds'[cmd].sigs \/ cmds'[cmd].proc = "exited"
           /\ ~running']_vars

\* Start has returned the cancellation error; its subprocess is alive with the
\* kill signal sent.
C12_Witness ==
    \E t \in Tasks :
        /\ op[t] = "Start" /\ pc[t] = "done" /\ ret[t] = "ctx"
        /\ ~running
        /\ Cur.proc = "alive" /\ "KILL" \in Cur.sigs

\* C13: the error of a failed Start tells its cause: the error of the
\* readiness timeout is returned only when the startup timer has fired, not
\* for a fatal diagnostic line.
C13_ErrorTellsCause ==
    [][\A t \in Tasks :
        (pc[t] = "start_loop" /\ pc'[t] = "done" /\ ret'[t] = "nofile")
        => timers.startTimer = "fired"]_vars

\* C14: the snapshot GetConfig returns has, in every field but start_time, the
\* value the supervisor was constructed with, whatever Start and Stop calls
\* came before, and a start_time that is set while the supervisor is running.
C14_ConfigSnapshot ==
    \A t \in Tasks :
        pc[t] = "acc_read"
        => /\ GetConfig.fields = Constructed
           /\ running => GetConfig.startTime # 0

\* An accessor holds the read lock on a supervisor that a second successful
\* Start has made running.
C14_Witness ==
    \E t \in Tasks :
        pc[t] = "acc_read" /\ running /\ GetConfig.startTime = MaxCmd

\* C15 as stated: start_time, once set, is never written again.
C15_AsStated == [][startTime # 0 => startTime' = startTime]_vars

\* C15: start_time is written by exactly the Start calls that find the
\* supervisor not running and return success, each of them stamping it anew,
\* also when an earlier Start has set it; no failed Start, no-op Start, Stop or
\* accessor call writes it.
C15_StartTimeWrites ==
    [][(startTime' # startTime)
        <=> \E t \in Tasks : /\ op[t] = "Start" /\ ~running
                             /\ pc[t] # "done" /\ pc'[t] = "done"
                             /\ ret'[t] = "nil"]_vars

\* A second Start has succeeded and stamped start_time over the first stamp.
C15_Witness ==
    \E t \in Tasks :
        /\ op[t] = "Start" /\ pc[t] = "done" /\ ret[t] = "nil"
        /\ startTime = MaxCmd

\* C16: the exit record changes only in the step in which a Stop that found
\* the supervisor running, its subprocess confirmed by a successful Start,
\* receives the result of wait; no-op Stop calls, Start calls and accessor
\* calls leave it as it is.
C16_ExitRecordRetained ==
    [][(processState' # processState)
        => /\ running /\ startTime = cmd
           /\ \E t \in Tasks : /\ op[t] = "Stop"
                               /\ pc[t] \in {"stop_select", "stop_drain"}
                               /\ pc'[t] = "done"]_vars

\* A Start has failed on a supervisor that holds the exit record of an earlier
\* subprocess.
C16_Witness ==
    \E t \in Tasks :
        /\ op[t] = "Start" /\ pc[t] = "done" /\ ret[t] # "nil"
        /\ processState # "nil" /\ startTime # 0 /\ cmd > startTime

\* C17: in either variant a Start that finds the supervisor not running
\* returns success only when the output target is there, as a named pipe or as
\* a file with data.
C17_VariantsAgree ==
    [][\A t \in Tasks :
        (/\ op[t] = "Start" /\ ~running
         /\ pc[t] # "done" /\ pc'[t] = "done" /\ ret'[t] = "nil")
        => TargetReady(file)]_vars

\* C18: a Start that leaves its readiness loop, its ctx not done, when the
\* subprocess has already exited does not return success and does not set
\* running.
C18_ExitedCheck ==
    [][\A t \in Tasks :
        (/\ pc[t] = "start_loop" /\ pc'[t] = "done"
         /\ cmds[cmd].proc = "exited" /\ ret'[t] # "ctx")
        => (ret'[t] # "nil" /\ ~running')]_vars

\* C19: a Start returns success from its readiness loop only in a step in
\* which the poll was due and the output target was a named pipe or a regular
\* file with data: not on an empty file, not on a line of the subprocess.
C19_ReadyOnlyByPoll ==
    [][\A t \in Tasks :
        (pc[t] = "start_loop" /\ pc'[t] = "done" /\ ret'[t] = "nil")
        => (tick /\ file \in {"fifo", "data"})]_vars

\* The macOS Start has returned success from its loop, the target a named
\* pipe.
C19_Witness ==
    \E t \in Tasks :
        /\ op[t] = "Start" /\ pc[t] = "done" /\ ret[t] = "nil"
        /\ variant = "macos" /\ running /\ file = "fifo"

\* C20: a Stop in its select whose ctx is done while the subprocess is still
\* alive takes the ctx case: it sends the kill signal, returns the
\* cancellation error in the same step, the subprocess not yet gone, and
\* leaves running false.
C20_StopCancelled ==
    [][\A t \in Tasks :
        (/\ pc[t] = "stop_select" /\ stopCtxDone /\ Cur.proc = "alive"
         /\ pc'[t] # pc[t])
        => /\ pc'[t] = "done" /\ ret'[t] = "ctx"
           /\ "KILL" \in cmds'[cmd].sigs /\ cmds'[cmd].proc = "alive"
           /\ ~running']_vars

\* A Stop has returned the cancellation error, the kill signal sent to a
\* subprocess that has not exited yet.
C20_Witness ==
    \E t \in Tasks :
        /\ op[t] = "Stop" /\ pc[t] = "done" /\ ret[t] = "ctx"
        /\ ~running
        /\ Cur.proc = "alive" /\ "KILL" \in Cur.sigs

\* C21: a Stop that finds a subprocess to stop sends its first signal and, if
\* that send succeeds, no other signal, whether or not the subprocess obeys;
\* whether the sends succeed or fail, it goes on to its select with the task
\* around wait spawned.
C21_FallbackOnlyOnSendFailure ==
    [][\A t \in Tasks :
        (/\ pc[t] = "stop_wait" /\ pc'[t] # pc[t]
         /\ running /\ Cur.proc # "none")
        => /\ pc'[t] = "stop_select"
           /\ waiter'[cmd].pc = "spawned"
           /\ cmds'[cmd].sigs =
                cmds[cmd].sigs \cup (IF SignalFails(cmd) THEN {}
                                     ELSE {PrimarySignal})]_vars

\* The macOS Stop waits in its select for a subprocess that ignores SIGINT:
\* SIGINT was sent and SIGTERM was not.
C21_Witness ==
    \E t \in Tasks :
        /\ pc[t] = "stop_select" /\ variant = "macos"
        /\ Cur.proc = "alive" /\ ~Cur.obeys
        /\ Cur.sigs = {"INT"}

\* C22: once Start has returned success, a line the subprocess has written to
\* its diagnostic stream is eventually taken from the stream by the scanner.
C22_ScannerNeverStuck ==
    (running /\ pipe # <<>>) ~> (pipe = <<>>)

\* C23: a signal is sent to a subprocess only while a task holds the exclusive
\* lock, or in the step in which a Start or Stop call is granted it.
C23_SignalsUnderLock ==
    [][(\E k \in CmdIds : ~(cmds'[k].sigs \subseteq cmds[k].sigs))
        => \/ muWriter # NoTask
           \/ \E t \in Tasks : /\ pc[t] \in {"start_wait", "stop_wait"}
                               /\ pc'[t] # pc[t]]_vars

\* C24: while no Stop call is between its signal and its return, no task that
\* a Stop spawned around wait is still to run or still waiting.
C24_WaiterEndsWithStop ==
    (\A t \in Tasks : pc[t] \notin {"stop_select", "stop_drain"})
    => \A k \in CmdIds : waiter[k].pc \notin {"spawned", "waiting"}

\* C25: in the step in which the macOS Start launches its subprocess, what is
\* at the output path afterwards is nothing or a named pipe, never a regular
\* file from before.
C25_NoStaleFile ==
    [][\A t \in Tasks :
        (variant = "macos" /\ pc[t] = "start_wait" /\ pc'[t] = "start_loop")
        => file' \in {"absent", "fifo"}]_vars

\* C26: the constructor turns the path it is given into one that ends in
\* ".ts": the path itself if it ends in ".ts" already, else the path with
\* ".ts" appended if its final element has no dot, else the path with ".ts"
\* in place of what begins at the last dot of its final element. Resolving the
\* result again gives the result, and from the construction on the path, which
\* is what GetOutputPath returns, stays as it is.
C26_PathResolved ==
    [][LET raw == outputPath
           res == outputPath'
           new == \A t \in Tasks : pc[t] = "new"
           NoDot(from) == \A i \in from..Len(raw) :
                            raw[i] = "." => \E j \in (i + 1)..Len(raw) :
                                                raw[j] = "/"
       IN  /\ new /\ pc' # pc
                => /\ HasSuffix(res, DotTs)
                   /\ ResolvePath(res) = res
                   /\ IF HasSuffix(raw, DotTs) THEN res = raw
                      ELSE \E n \in 0..Len(raw) :
                            /\ res = SubSeq(raw, 1, n) \o DotTs
                            /\ \/ n = Len(raw) /\ NoDot(1)
                               \/ /\ n < Len(raw) /\ raw[n + 1] = "."
                                  /\ \A j \in (n + 2)..Len(raw) :
                                        raw[j] \notin {".", "/"}
           /\ ~new => /\ res = raw
                      /\ GetOutputPath = raw]_vars

\* An accessor reads the path of a supervisor that was given a path of the
\* greatest length without an extension: ".ts" was appended to it.
C26_Witness ==
    \E t \in Tasks :
        /\ pc[t] = "acc_read"
        /\ Len(GetOutputPath) = MaxPath + Len(DotTs)
        /\ cmd # 0

\* C27: a Start that returns the error of the directory creation, of the
\* stderr pipe or of the spawn leaves running false, start_time and the exit
\* record as they were and the lock free; after a failed directory creation
\* no exec.Cmd was made, after a failed spawn one was made, once, and it has
\* no process.
C27_LaunchFailure ==
    [][\A t \in Tasks :
        (/\ pc[t] = "start_wait" /\ pc'[t] = "done"
         /\ ret'[t] \in {"mkdir", "pipe", "start"})
        => /\ ~running'
           /\ startTime' = startTime
           /\ processState' = processState
           /\ muWriter' = NoTask
           /\ IF ret'[t] = "mkdir"
              THEN cmd' = cmd /\ cmds' = cmds
              ELSE cmd' = cmd + 1 /\ cmds'[cmd'].proc = "none"]_vars

\* A later Start has succeeded after a Start whose spawn failed.
C27_Witness ==
    \E t \in Tasks :
        /\ op[t] = "Start" /\ pc[t] = "done" /\ ret[t] = "nil"
        /\ running /\ cmd = 2 /\ cmds[1].proc = "none"

\* C28: while an accessor holds the read lock, running true goes with a
\* start_time that is the stamp of the Start that launched the current
\* subprocess; while running stays true the stamp stays, and running becomes
\* false only by a Stop.
C28_RunningAndStampAgree ==
    [][/\ \A t \in Tasks :
            (pc[t] = "acc_read" /\ IsRunning)
            => (GetConfig.startTime = cmd /\ GetConfig.startTime # 0)
       /\ (running /\ running') => startTime' = startTime
       /\ (running /\ ~running')
            => \E t \in Tasks : op[t] = "Stop" /\ pc'[t] # pc[t]]_vars

\* An accessor holds the read lock on a supervisor that its first Start has
\* made running.
C28_Witness ==
    \E t \in Tasks :
        /\ pc[t] = "acc_read" /\ IsRunning
        /\ GetConfig.startTime = 1 /\ cmd = 1

\* C29: a Start that waits for the lock or is in its readiness loop
\* eventually returns with the lock released, whatever the subprocess does.
C29_StartReturns ==
    \A t \in Tasks :
        (pc[t] \in {"start_wait", "start_loop"})
        ~> (pc[t] = "done" /\ muWriter # t)

\* Start is in its loop, the timer has fired, and the subprocess has closed
\* its diagnostic stream, has created no output and runs on.
C29_Witness ==
    \E t \in Tasks :
        /\ pc[t] = "start_loop" /\ timers.startTimer = "fired"
        /\ chanClosed /\ file = "absent" /\ Runs(cmd)

\* C30: a Stop that is in its shutdown sequence eventually returns with the
\* lock released.
C30_StopReturns ==
    \A t \in Tasks :
        (pc[t] \in {"stop_select", "stop_drain"})
        ~> (pc[t] = "done" /\ muWriter # t)

\* C31: while the ctx is not cancelled, a result the uploader has published
\* is eventually received by the result logger.
C31_ResultsConsumed ==
    (snap.results # <<>> /\ ~snap.ctxDone)
    ~> (snap.results = <<>> \/ snap.ctxDone)

====
